---------------------------- MODULE Spec2Model ----------------------------
(***************************************************************************)
(* A model of the display helpers of internal/render/helpers.go (k9s).     *)
(*                                                                         *)
(* Text is a sequence of one-character strings, so that byte lengths,      *)
(* prefixes, suffixes and orderings are computed as the code computes      *)
(* them.  Each helper is an operator translated from its Go body; each     *)
(* specification below drives one family of helpers with inputs drawn from *)
(* bounded sets and records what the call returned.                        *)
(***************************************************************************)
EXTENDS Integers, Sequences, FiniteSets

VARIABLES
    \* --- key/value serializers
    labels,      \* a map[string]string handed to mapToStr / toSelector
    dyn,         \* an `any` handed to mapToIfc
    last,        \* the last serializer call: [fn, order, out]
    prevOut,     \* result of the call before it, when it was the same function
    reordered,   \* that earlier call ranged over the map in another order
    \* --- Pad / Truncate
    eastAsian,   \* go-runewidth's East Asian mode (ambiguous glyphs are wide)
    padIn,       \* the string handed to Pad
    padWidth,    \* the width handed to Pad
    padOut,      \* Pad(padIn, padWidth), once called
    padOut2,     \* Pad(padOut, padWidth), once called
    \* --- decimal
    decV,        \* the raw quantity handed to decimal
    decOut,      \* what decimal returned
    decPrevV,    \* the raw quantity of the call before
    decPrevOut,  \* what that call returned
    \* --- humanizeBytes
    hbV,         \* the byte count handed to humanizeBytes
    hbOut,       \* what it returned
    \* --- memPct / decimalPct
    pctFn,       \* which annotator was called
    pctUsed,     \* its first argument
    pctLimit,    \* its second argument
    pctOut,      \* what it returned
    pctDivided,  \* the call evaluated float64(v) / float64(l)
    \* --- computeVulScore
    scanner,     \* vul.ImgScanner: [present, initialized, excluded]
    vulNs,       \* the namespace argument
    vulLbls,     \* the labels argument (its keys)
    vulImages,   \* the images of the pod spec argument
    vulCalls,    \* the scanner methods the call invoked, in order
    vulOut       \* what computeVulScore returned

mapVars == <<labels, dyn, last, prevOut, reordered>>
padVars == <<eastAsian, padIn, padWidth, padOut, padOut2>>
decVars == <<decV, decOut, decPrevV, decPrevOut>>
hbVars  == <<hbV, hbOut>>
pctVars == <<pctFn, pctUsed, pctLimit, pctOut, pctDivided>>
vulVars == <<scanner, vulNs, vulLbls, vulImages, vulCalls, vulOut>>

vars == <<mapVars, padVars, decVars, hbVars, pctVars, vulVars>>

\* What a call of one family leaves alone: the state of the other families.
mapFrame == <<padVars, decVars, hbVars, pctVars, vulVars>>
padFrame == <<mapVars, decVars, hbVars, pctVars, vulVars>>
decFrame == <<mapVars, padVars, hbVars, pctVars, vulVars>>
hbFrame  == <<mapVars, padVars, decVars, pctVars, vulVars>>
pctFrame == <<mapVars, padVars, decVars, hbVars, vulVars>>
vulFrame == <<mapVars, padVars, decVars, hbVars, pctVars>>

(***************************************************************************)
(* Text helpers (package strings, built-in string operations).             *)
(***************************************************************************)

\* strings.HasPrefix / strings.HasSuffix
HasPrefix(s, p) == Len(s) >= Len(p) /\ SubSeq(s, 1, Len(p)) = p
HasSuffix(s, p) == Len(s) >= Len(p) /\ SubSeq(s, Len(s) - Len(p) + 1, Len(s)) = p

\* strings.TrimPrefix / strings.TrimSuffix
TrimPrefix(s, p) == IF HasPrefix(s, p) THEN SubSeq(s, Len(p) + 1, Len(s)) ELSE s
TrimSuffix(s, p) == IF HasSuffix(s, p) THEN SubSeq(s, 1, Len(s) - Len(p)) ELSE s

\* strings.Contains(s, c) for a one-character c
ContainsChar(s, c) == \E i \in 1..Len(s) : s[i] = c


\* The result slot of a call that has not happened.
NoResult == <<"NO_RESULT">>

(***************************************************************************)
(* Key/value serializers: toSelector, mapToStr, mapToIfc.                  *)
(***************************************************************************)

\* How many keys, and how many string values, the maps are drawn from.
NumKeys == 3
NumVals == 2

\* The byte of a character: Go compares strings byte-wise.
ByteOf(c) ==
    CASE c = " " -> 32
      [] c = "," -> 44
      [] c = "1" -> 49
      [] c = "2" -> 50
      [] c = "3" -> 51
      [] c = "=" -> 61
      [] c = "a" -> 97
      [] c = "b" -> 98
      [] c = "c" -> 99
      [] OTHER   -> 0

KeyPool == << <<"b">>, <<"a">>, <<"a", "b">>, <<"c">>, <<"b", "a">> >>
ValPool == << <<"1">>, <<"2">>, <<"3">> >>

Keys    == { KeyPool[i] : i \in 1..NumKeys }
StrVals == { ValPool[i] : i \in 1..NumVals }

\* A value of a map[string]any: a string, or something that is not a string.
StringVal(s) == [isStr |-> TRUE, str |-> s]
OtherVal     == [isStr |-> FALSE, str |-> <<>>]
AnyVals      == { StringVal(s) : s \in StrVals } \cup {OtherVal}

\* map[string]string values, and the `any` values mapToIfc may be handed.
EmptyMap   == << >>
LabelMaps  == UNION { [S -> StrVals] : S \in SUBSET Keys }
NilAny     == [kind |-> "nil", mm |-> EmptyMap]
NotMapAny  == [kind |-> "notmap", mm |-> EmptyMap]
MapAny(mm) == [kind |-> "map", mm |-> mm]
DynValues  ==
    {NilAny, NotMapAny} \cup { MapAny(mm) : mm \in UNION { [S -> AnyVals] : S \in SUBSET Keys } }

\* The orders in which a `range` over a map with key set S may visit it:
\* Go leaves the order unspecified, so every permutation is possible.
RangeOrders(S) ==
    { p \in [1..Cardinality(S) -> S] : \A i, j \in DOMAIN p : i # j => p[i] # p[j] }

\* a < b for Go strings: byte-wise lexicographic.
LexLess(a, b) ==
    \E i \in 1..(Len(b)) :
        /\ \A j \in 1..(i - 1) : j <= Len(a) /\ a[j] = b[j]
        /\ \/ i > Len(a)
           \/ i <= Len(a) /\ ByteOf(a[i]) < ByteOf(b[i])

\* One insertion of k into the sorted slice kk.
RECURSIVE SortedInsert(_, _)
SortedInsert(kk, k) ==
    IF kk = <<>> THEN <<k>>
    ELSE IF LexLess(k, Head(kk)) THEN <<k>> \o kk
    ELSE <<Head(kk)>> \o SortedInsert(Tail(kk), k)

RECURSIVE InsertionSort(_)
InsertionSort(kk) ==
    IF kk = <<>> THEN <<>>
    ELSE SortedInsert(InsertionSort(SubSeq(kk, 1, Len(kk) - 1)), kk[Len(kk)])

\* A serializer that leaves the keys in the order the range produced them.
SortStrings_Skipped(kk) == kk

\* sort.Strings(kk): kk in ascending byte-wise order.
SortStrings(kk) == InsertionSort(kk)

\* strings.Join(ss, sep)
RECURSIVE Join(_, _)
Join(ss, sep) ==
    IF ss = <<>> THEN <<>>
    ELSE IF Len(ss) = 1 THEN ss[1]
    ELSE ss[1] \o sep \o Join(Tail(ss), sep)

\* toSelector(m), the range over m visiting the keys in `order`.
toSelector(m, order) ==
    LET s == [i \in 1..Len(order) |-> order[i] \o <<"=">> \o m[order[i]]]
    IN  Join(s, <<",">>)

\* The loop of mapToStr, from index i on (1-based; Go's i is i - 1).
RECURSIVE mapToStrLoop(_, _, _, _)
mapToStrLoop(m, kk, i, bb) ==
    IF i > Len(kk) THEN bb
    ELSE LET b1 == bb \o kk[i] \o <<"=">> \o m[kk[i]]
             b2 == IF i - 1 < Len(kk) - 1 THEN b1 \o <<",">> ELSE b1
         IN  mapToStrLoop(m, kk, i + 1, b2)

\* mapToStr(m), the range over m visiting the keys in `order`.
mapToStr(m, order) ==
    IF Cardinality(DOMAIN m) = 0 THEN <<>>
    ELSE mapToStrLoop(m, SortStrings(order), 1, <<>>)

\* The loop of mapToIfc, from index i on (1-based; Go's i is i - 1).
RECURSIVE mapToIfcLoop(_, _, _, _)
mapToIfcLoop(mm, kk, i, s) ==
    IF i > Len(kk) THEN s
    ELSE IF ~mm[kk[i]].isStr THEN mapToIfcLoop(mm, kk, i + 1, s)
    ELSE LET s1 == s \o kk[i] \o <<"=">> \o mm[kk[i]].str
             s2 == IF i - 1 < Len(kk) - 1 THEN s1 \o <<" ">> ELSE s1
         IN  mapToIfcLoop(mm, kk, i + 1, s2)

\* mapToIfc(d), the range over the map visiting the keys in `order`.
mapToIfc(d, order) ==
    IF d.kind = "nil" THEN <<>>
    ELSE IF d.kind # "map" THEN <<>>
    ELSE IF Cardinality(DOMAIN d.mm) = 0 THEN <<>>
    ELSE mapToIfcLoop(d.mm, SortStrings(order), 1, <<>>)

NoCall == [fn |-> "none", order |-> <<>>, out |-> NoResult]

\* What a call leaves behind: the call, and the result of the call before it
\* when that was a call of the same function.
Record(fn, order, out) ==
    /\ last' = [fn |-> fn, order |-> order, out |-> out]
    /\ prevOut' = IF last.fn = fn THEN last.out ELSE NoResult
    /\ reordered' = (last.fn = fn /\ last.order # order)

MapIdle ==
    /\ labels = EmptyMap /\ dyn = NilAny
    /\ last = NoCall /\ prevOut = NoResult /\ reordered = FALSE

MapStart ==
    /\ \/ labels \in LabelMaps /\ dyn = NilAny
       \/ labels = EmptyMap /\ dyn \in DynValues
    /\ last = NoCall /\ prevOut = NoResult /\ reordered = FALSE

CallToSelector ==
    /\ \E order \in RangeOrders(DOMAIN labels) :
           Record("toSelector", order, toSelector(labels, order))
    /\ UNCHANGED <<labels, dyn, mapFrame>>

CallMapToStr ==
    /\ \E order \in RangeOrders(DOMAIN labels) :
           Record("mapToStr", order, mapToStr(labels, order))
    /\ UNCHANGED <<labels, dyn, mapFrame>>

CallMapToIfc ==
    /\ \E order \in RangeOrders(DOMAIN dyn.mm) :
           Record("mapToIfc", order, mapToIfc(dyn, order))
    /\ UNCHANGED <<labels, dyn, mapFrame>>


(***************************************************************************)
(* Pad and Truncate.                                                       *)
(*                                                                         *)
(* A string is a sequence of glyphs.  A glyph has a byte length (what      *)
(* len(s) counts) and a rendered width (what go-runewidth counts), and the *)
(* two differ: "a" is 1 byte and 1 column, E_ACUTE (U+00E9) 2 bytes and    *)
(* 1 column, CJK (U+4E16) 3 bytes and 2 columns, ELLIPSIS (U+2026) 3 bytes *)
(* and 1 column.  U+00E9 and U+2026 are East Asian Ambiguous: go-runewidth *)
(* counts them 2 columns wide in its East Asian mode, which it takes from  *)
(* the process environment.                                                *)
(***************************************************************************)

\* Longest input string (in glyphs), widest column, and how far below zero
\* the width ranges.
MaxLen    == 3
MaxWidth  == 7
NegWidths == 1

InputGlyphs == {"a", "E_ACUTE", "CJK", "ELLIPSIS"}

\* UTF-8 length of a glyph.
ByteLen(g) ==
    CASE g = "E_ACUTE"  -> 2
      [] g = "CJK"      -> 3
      [] g = "ELLIPSIS" -> 3
      [] OTHER          -> 1

\* runewidth.RuneWidth(r) under the condition ea (EastAsianWidth).
RuneWidth(g, ea) ==
    CASE g = "CJK"      -> 2
      [] g = "E_ACUTE"  -> IF ea THEN 2 ELSE 1
      [] g = "ELLIPSIS" -> IF ea THEN 2 ELSE 1
      [] OTHER          -> 1

\* len(s): the number of bytes of s.
RECURSIVE ByteLength(_)
ByteLength(s) == IF s = <<>> THEN 0 ELSE ByteLen(Head(s)) + ByteLength(Tail(s))

\* runewidth.StringWidth(s): the number of columns s is rendered in.
RECURSIVE StringWidth(_, _)
StringWidth(s, ea) ==
    IF s = <<>> THEN 0 ELSE RuneWidth(Head(s), ea) + StringWidth(Tail(s), ea)

\* string(tview.SemigraphicsHorizontalEllipsis)
Ellipsis == <<"ELLIPSIS">>

\* The scan of runewidth.Truncate: the number of leading glyphs of s that
\* fit in w columns, from glyph i on with `width` columns taken so far.
RECURSIVE TruncatePos(_, _, _, _, _)
TruncatePos(s, w, i, width, ea) ==
    IF i > Len(s) THEN Len(s)
    ELSE IF width + RuneWidth(s[i], ea) > w THEN i - 1
    ELSE TruncatePos(s, w, i + 1, width + RuneWidth(s[i], ea), ea)

\* runewidth.Truncate(s, w, tail)
RunewidthTruncate(s, w, tail, ea) ==
    IF StringWidth(s, ea) <= w THEN s
    ELSE SubSeq(s, 1, TruncatePos(s, w - StringWidth(tail, ea), 1, 0, ea)) \o tail

\* Truncate(str, width)
Truncate(str, width, ea) == RunewidthTruncate(str, width, Ellipsis, ea)

\* strings.Repeat(" ", n)
Spaces(n) == [i \in 1..n |-> " "]

\* A Pad that pads one space too many.
Pad_OneTooMany(s, width, ea) ==
    IF ByteLength(s) = width THEN s
    ELSE IF ByteLength(s) > width THEN Truncate(s, width, ea)
    ELSE s \o Spaces(width - ByteLength(s) + 1)

\* Pad(s, width)
Pad(s, width, ea) ==
    IF ByteLength(s) = width THEN s
    ELSE IF ByteLength(s) > width THEN Truncate(s, width, ea)
    ELSE s \o Spaces(width - ByteLength(s))

RECURSIVE StringsUpTo(_)
StringsUpTo(n) ==
    IF n = 0 THEN {<<>>}
    ELSE LET shorter == StringsUpTo(n - 1)
         IN  shorter \cup { Append(s, g) : s \in { x \in shorter : Len(x) = n - 1 },
                                            g \in InputGlyphs }

PadIdle ==
    /\ eastAsian = FALSE /\ padIn = <<>> /\ padWidth = 0
    /\ padOut = NoResult /\ padOut2 = NoResult

PadStart ==
    /\ eastAsian \in BOOLEAN
    /\ padIn \in StringsUpTo(MaxLen)
    /\ padWidth \in (0 - NegWidths)..MaxWidth
    /\ padOut = NoResult /\ padOut2 = NoResult

\* Pad(s, w)
CallPad ==
    /\ padOut = NoResult
    /\ padOut' = Pad(padIn, padWidth, eastAsian)
    /\ UNCHANGED <<eastAsian, padIn, padWidth, padOut2, padFrame>>

\* Pad(Pad(s, w), w)
CallPadAgain ==
    /\ padOut # NoResult /\ padOut2 = NoResult
    /\ padOut2' = Pad(padOut, padWidth, eastAsian)
    /\ UNCHANGED <<eastAsian, padIn, padWidth, padOut, padFrame>>


(***************************************************************************)
(* Number formatting (strconv, fmt with %d and %.Nf).                      *)
(***************************************************************************)

DigitChar(d) == <<"0", "1", "2", "3", "4", "5", "6", "7", "8", "9">>[d + 1]

IsDigit(c) == c \in {"0", "1", "2", "3", "4", "5", "6", "7", "8", "9"}

DigitOf(c) == CHOOSE d \in 0..9 : DigitChar(d) = c

\* fmt.Sprintf("%d", n) for n >= 0
RECURSIVE Itoa(_)
Itoa(n) == IF n < 10 THEN <<DigitChar(n)>> ELSE Itoa(n \div 10) \o <<DigitChar(n % 10)>>

\* The decimal digits of n, zero-padded on the left to `width` digits.
RECURSIVE ZeroPad(_, _)
ZeroPad(n, width) ==
    IF width = 0 THEN <<>> ELSE ZeroPad(n \div 10, width - 1) \o <<DigitChar(n % 10)>>

RECURSIVE Pow(_, _)
Pow(b, e) == IF e = 0 THEN 1 ELSE b * Pow(b, e - 1)

\* The significand of an IEEE-754 double has 53 bits.
MantissaBits == 53

\* Binary long division of n / d with d <= n < 2d, after the leading 1 bit:
\* `left` quotient bits still to produce, rem the remainder, lastBit the bit
\* produced last.  When the 53 bits are out, what is left decides which way
\* round-to-nearest-even moved the quotient.
RECURSIVE RoundingOf(_, _, _, _)
RoundingOf(d, rem, left, lastBit) ==
    IF left = 0
    THEN IF rem = 0 THEN "exact"
         ELSE IF 2 * rem > d THEN "above"
         ELSE IF 2 * rem < d THEN "below"
         ELSE IF lastBit = 1 THEN "above" ELSE "below"
    ELSE IF 2 * rem >= d THEN RoundingOf(d, 2 * rem - d, left - 1, 1)
         ELSE RoundingOf(d, 2 * rem, left - 1, 0)

\* n / d scaled by a power of two into [1, 2).
RECURSIVE FloatDirScaled(_, _)
FloatDirScaled(n, d) ==
    IF n < d THEN FloatDirScaled(2 * n, d)
    ELSE IF n >= 2 * d THEN FloatDirScaled(n, 2 * d)
    ELSE RoundingOf(d, n - d, MantissaBits - 1, 1)

\* Where the double float64(n) / float64(d) lies relative to the rational
\* n / d (n >= 0 and d > 0 small enough to be doubles themselves): the
\* division is correctly rounded, so it is n / d rounded to 53 bits.
FloatDir(n, d) == IF n = 0 THEN "exact" ELSE FloatDirScaled(n, d)

\* round(x) to an integer for x = q + r/unit held in a double that lies `dir`
\* of it, as strconv rounds when it formats: to nearest, an exact tie to even.
\* The double is within 2^-53 (relative) of x, so it matters only at a tie.
RoundDigits(q, r, unit, dir) ==
    IF 2 * r > unit THEN q + 1
    ELSE IF 2 * r < unit THEN q
    ELSE IF dir = "above" THEN q + 1
    ELSE IF dir = "below" THEN q
    ELSE IF q % 2 = 1 THEN q + 1 ELSE q

\* The text of n / 10^prec with exactly prec decimals.
FixedText(n, prec) ==
    IF prec = 0 THEN Itoa(n)
    ELSE Itoa(n \div Pow(10, prec)) \o <<".">> \o ZeroPad(n % Pow(10, prec), prec)

\* fmt.Sprintf("%.<prec>f", float64(n) / float64(d)) for n >= 0, d > 0.
FormatQuotient(n, d, prec) ==
    LET scaled == n * Pow(10, prec)
    IN  FixedText(RoundDigits(scaled \div d, scaled % d, d, FloatDir(n, d)), prec)

(***************************************************************************)
(* decimal                                                                 *)
(***************************************************************************)

\* Largest raw quantity, and how far the next call's quantity may lie above
\* the last one's.
MaxRaw  == 10100
MaxStep == 2

\* 1e3
Milli == 1000

\* decimal(v).  vf is float64(v) / 1e3.  The division is correctly rounded
\* and monotone, and 10 / 1e3 rounds to the very double the literal 0.01
\* denotes, so vf < 0.01 exactly when v < 10; 1 and 10 are exact quotients.
decimal(v) ==
    LET vf == IF v < 0 THEN 0 ELSE v
    IN  IF vf < 10 THEN <<"0">>
        ELSE IF vf < 1000
        THEN LET ret == <<".">> \o TrimPrefix(FormatQuotient(vf, Milli, 2), <<"0", ".">>)
             IN  IF Len(ret) = 3 /\ ret[2] # "0" THEN TrimSuffix(ret, <<"0">>) ELSE ret
        ELSE IF vf < 10000
        THEN TrimSuffix(FormatQuotient(vf, Milli, 1), <<".", "0">>)
        ELSE FormatQuotient(vf, Milli, 0)

DecIdle ==
    /\ decV = 0 /\ decOut = NoResult /\ decPrevV = 0 /\ decPrevOut = NoResult

DecStart ==
    /\ decV \in (0 - 1)..MaxRaw
    /\ decOut = NoResult /\ decPrevV = 0 /\ decPrevOut = NoResult

\* decimal(v) on the first quantity.
CallDecimal ==
    /\ decOut = NoResult
    /\ decOut' = decimal(decV)
    /\ UNCHANGED <<decV, decPrevV, decPrevOut, decFrame>>

\* decimal(v2) on a larger quantity than the call before.
CallDecimalLarger ==
    /\ decOut # NoResult
    /\ \E v \in (decV + 1)..(decV + MaxStep) :
           /\ v <= MaxRaw
           /\ decV' = v
           /\ decOut' = decimal(v)
    /\ decPrevV' = decV
    /\ decPrevOut' = decOut
    /\ UNCHANGED decFrame


(***************************************************************************)
(* humanateBytes and humanizeBytes                                         *)
(***************************************************************************)

\* Byte counts 0..MaxDense and those within HbWindow of 1024^2 are tried.
MaxDense == 11000
HbWindow == 200

\* ZeroValue, the zero-marker of the render package.
ZeroValue == <<"0">>

\* The base humanizeBytes scales by.
KiloBase == 1024

\* The suffix table of humanizeBytes.
Sizes == << <<>>, <<"K">>, <<"M">>, <<"G">>, <<"T">>, <<"P">>, <<"E">> >>

\* math.Floor(logn(float64(s), base)) for s >= 1: the largest e with
\* base^e <= s.
RECURSIVE FloorLog(_, _)
FloorLog(s, base) == IF s < base THEN 0 ELSE 1 + FloorLog(s \div base, base)

\* The formatting tail of humanateBytes, val held as val10 = val * 10:
\* "%.1f" below 10 and "%.0f" from 10 on, then strings.TrimSuffix(".0").
\* val * 10 is an integer, so val falls on a "%.0f" tie exactly when it
\* ends in .5, which a double holds exactly.
HumanateText(val10, suffix) ==
    LET valStr == IF val10 < 100
                  THEN FixedText(val10, 1)
                  ELSE Itoa(RoundDigits(val10 \div 10, val10 % 10, 10, "exact"))
    IN  TrimSuffix(valStr, <<".", "0">>) \o suffix

\* A humanateBytes that keeps one decimal at every magnitude.
humanateBytes_AlwaysOneDecimal(s, base, sizes) ==
    IF s < 10 THEN Itoa(s) \o <<" ", "B">>
    ELSE LET e      == FloorLog(s, base)
             suffix == sizes[e + 1]
             val10  == (20 * s + Pow(base, e)) \div (2 * Pow(base, e))
         IN  TrimSuffix(FixedText(val10, 1), <<".", "0">>) \o suffix

\* humanateBytes(s, base, sizes).  val10 is
\* math.Floor(float64(s) / math.Pow(base, e) * 10 + 0.5): s * 10 / base^e
\* rounded half up, the double arithmetic being exact at these magnitudes.
humanateBytes(s, base, sizes) ==
    IF s < 10 THEN Itoa(s) \o <<" ", "B">>
    ELSE LET e      == FloorLog(s, base)
             suffix == sizes[e + 1]
             val10  == (20 * s + Pow(base, e)) \div (2 * Pow(base, e))
         IN  HumanateText(val10, suffix)

\* humanateBytes on uint64(v) for a small negative v.  uint64(v) is
\* 2^64 + v, within half a double's spacing (2^11) of 2^64, so float64(s) is
\* 2^64: e is floor(64 / 10) = 6 and val is
\* floor(2^64 / 2^60 * 10 + 0.5) / 10 = 16.
humanateWrapped(sizes) == HumanateText(160, sizes[7])

\* humanizeBytes(v)
humanizeBytes(v) ==
    IF v = 0 THEN ZeroValue
    ELSE IF v < 0 THEN humanateWrapped(Sizes)
    ELSE humanateBytes(v, KiloBase, Sizes)

Mega == KiloBase * KiloBase

HbInputs == (0..MaxDense) \cup ((Mega - HbWindow)..(Mega + HbWindow))

HbIdle == hbV = 0 /\ hbOut = NoResult

HbStart == hbV \in HbInputs /\ hbOut = NoResult

\* humanizeBytes(b)
CallHumanizeBytes ==
    /\ hbOut = NoResult
    /\ hbOut' = humanizeBytes(hbV)
    /\ UNCHANGED <<hbV, hbFrame>>


(***************************************************************************)
(* memPct and decimalPct                                                   *)
(***************************************************************************)

\* used ranges over -MaxNegUsed..MaxUsed, limit over -MaxNegLimit..MaxLimit.
MaxUsed     == 1100
MaxNegUsed  == 2
MaxLimit    == 12
MaxNegLimit == 3

\* fmt.Sprintf("%.0f", float64(v) / float64(l) * 100) for l >= 0.  A double
\* division by zero is not an error: it yields an infinity, or NaN for 0/0.
\* For l > 0 the result is 100 * |v| / l rounded to nearest, a tie to even,
\* behind the sign of v.  (For l < 40 a tie forces v / l to be a multiple of
\* 1/8, which the double division and the product by 100 hold exactly; away
\* from a tie the rounding error of the doubles is far too small to matter.)
FormatPctNumber(v, l) ==
    IF l = 0
    THEN IF v > 0 THEN <<"+", "I", "n", "f">>
         ELSE IF v < 0 THEN <<"-", "I", "n", "f">>
         ELSE <<"N", "a", "N">>
    ELSE LET a   == IF v < 0 THEN 0 - v ELSE v
             mag == Itoa(RoundDigits((100 * a) \div l, (100 * a) % l, l, "exact"))
         IN  IF v < 0 THEN <<"-">> \o mag ELSE mag

\* fmt.Sprintf("(%.0f%%)", pct)
PctStr(v, l) == <<"(">> \o FormatPctNumber(v, l) \o <<"%", ")">>

\* A memPct whose guard lets a zero limit through.
memPct_ZeroLimitDivides(v, l) ==
    IF l < 0 THEN [out |-> humanizeBytes(v), divided |-> FALSE]
    ELSE [out |-> humanizeBytes(v) \o <<"/">> \o humanizeBytes(l) \o PctStr(v, l),
          divided |-> TRUE]

\* memPct(v, l): what it returns, and whether it evaluated
\* float64(v) / float64(l).
memPct(v, l) ==
    IF l <= 0 THEN [out |-> humanizeBytes(v), divided |-> FALSE]
    ELSE [out |-> humanizeBytes(v) \o <<"/">> \o humanizeBytes(l) \o PctStr(v, l),
          divided |-> TRUE]

\* decimalPct(v, l): what it returns, and whether it evaluated
\* float64(v) / float64(l).
decimalPct(v, l) ==
    IF l <= 0 THEN [out |-> decimal(v), divided |-> FALSE]
    ELSE [out |-> decimal(v) \o <<"/">> \o decimal(l) \o PctStr(v, l),
          divided |-> TRUE]

PctIdle ==
    /\ pctFn = "none" /\ pctUsed = 0 /\ pctLimit = 0
    /\ pctOut = NoResult /\ pctDivided = FALSE

PctStart ==
    /\ pctFn = "none"
    /\ pctUsed \in (0 - MaxNegUsed)..MaxUsed
    /\ pctLimit \in (0 - MaxNegLimit)..MaxLimit
    /\ pctOut = NoResult /\ pctDivided = FALSE

\* memPct(used, limit)
CallMemPct ==
    /\ pctFn = "none"
    /\ pctFn' = "memPct"
    /\ pctOut' = memPct(pctUsed, pctLimit).out
    /\ pctDivided' = memPct(pctUsed, pctLimit).divided
    /\ UNCHANGED <<pctUsed, pctLimit, pctFrame>>

\* decimalPct(used, limit)
CallDecimalPct ==
    /\ pctFn = "none"
    /\ pctFn' = "decimalPct"
    /\ pctOut' = decimalPct(pctUsed, pctLimit).out
    /\ pctDivided' = decimalPct(pctUsed, pctLimit).divided
    /\ UNCHANGED <<pctUsed, pctLimit, pctFrame>>

(***************************************************************************)
(* computeVulScore and the image scanner it consults                       *)
(***************************************************************************)

\* Most containers of a pod spec.
MaxImages == 2

\* NAValue, the not-applicable marker of the render package.
NAValue == <<"n", "/", "a">>

Namespaces == {"default", "kube-system"}
LabelKeys  == {"app"}
Images     == {"nginx", "redis"}
Scores     == {<<"0">>, <<"1">>}

ImageLists == UNION { [1..n -> Images] : n \in 0..MaxImages }

\* vul.ImgScanner == nil
NoScanner == [present |-> FALSE, initialized |-> FALSE,
              exclNs |-> {}, exclLbls |-> {}, queue |-> {}]

Scanners ==
    {NoScanner} \cup
    [present : {TRUE}, initialized : BOOLEAN,
     exclNs : SUBSET Namespaces, exclLbls : SUBSET LabelKeys, queue : {{}}]

\* (*ImageScanner).IsInitialized()
IsInitialized(sc) == sc.initialized

\* (*ImageScanner).ShouldExcludes(ns, lbls)
ShouldExcludes(sc, ns, lbls) == ns \in sc.exclNs \/ (lbls \cap sc.exclLbls) # {}

\* (*ImageScanner).Enqueue(ctx, images...): the scanner after the call.
Enqueue(sc, ii) == [sc EXCEPT !.queue = @ \cup { ii[i] : i \in DOMAIN ii }]

\* ExtractImages(spec): the image of each container, in order.
ExtractImages(containers) == [i \in 1..Len(containers) |-> containers[i]]

\* One invocation of a scanner method.
Call(op, args) == [op |-> op, args |-> args]

\* A computeVulScore that asks the scanner for the score before it enqueues.
computeVulScore_ScoreFirst(sc, ns, lbls, spec, score) ==
    IF ~sc.present
    THEN [out |-> NAValue, calls |-> <<>>, scanner |-> sc]
    ELSE IF ~IsInitialized(sc)
    THEN [out |-> NAValue, calls |-> <<Call("IsInitialized", <<>>)>>, scanner |-> sc]
    ELSE IF ShouldExcludes(sc, ns, lbls)
    THEN [out |-> NAValue,
          calls |-> <<Call("IsInitialized", <<>>), Call("ShouldExcludes", <<>>)>>,
          scanner |-> sc]
    ELSE LET ii == ExtractImages(spec)
         IN  [out |-> score,
              calls |-> <<Call("IsInitialized", <<>>), Call("ShouldExcludes", <<>>),
                          Call("Score", ii), Call("Enqueue", ii)>>,
              scanner |-> Enqueue(sc, ii)]

\* computeVulScore(ns, lbls, spec) with vul.ImgScanner = sc, Score answering
\* `score`: what it returns, the scanner methods it invokes in order (Go's ||
\* evaluates left to right and stops at the first true operand), and the
\* scanner afterwards.
computeVulScore(sc, ns, lbls, spec, score) ==
    IF ~sc.present
    THEN [out |-> NAValue, calls |-> <<>>, scanner |-> sc]
    ELSE IF ~IsInitialized(sc)
    THEN [out |-> NAValue, calls |-> <<Call("IsInitialized", <<>>)>>, scanner |-> sc]
    ELSE IF ShouldExcludes(sc, ns, lbls)
    THEN [out |-> NAValue,
          calls |-> <<Call("IsInitialized", <<>>), Call("ShouldExcludes", <<>>)>>,
          scanner |-> sc]
    ELSE LET ii == ExtractImages(spec)
         IN  [out |-> score,
              calls |-> <<Call("IsInitialized", <<>>), Call("ShouldExcludes", <<>>),
                          Call("Enqueue", ii), Call("Score", ii)>>,
              scanner |-> Enqueue(sc, ii)]

VulIdle ==
    /\ scanner = NoScanner /\ vulNs = "default" /\ vulLbls = {}
    /\ vulImages = <<>> /\ vulCalls = <<>> /\ vulOut = NoResult

VulStart ==
    /\ scanner \in Scanners
    /\ vulNs \in Namespaces
    /\ vulLbls \in SUBSET LabelKeys
    /\ vulImages \in ImageLists
    /\ vulCalls = <<>> /\ vulOut = NoResult

\* computeVulScore(ns, lbls, spec)
CallComputeVulScore ==
    /\ \E ns \in Namespaces, lbls \in SUBSET LabelKeys, spec \in ImageLists, score \in Scores :
           LET r == computeVulScore(scanner, ns, lbls, spec, score)
           IN  /\ vulNs' = ns
               /\ vulLbls' = lbls
               /\ vulImages' = spec
               /\ vulOut' = r.out
               /\ vulCalls' = r.calls
               /\ scanner' = r.scanner
    /\ UNCHANGED vulFrame

(***************************************************************************)
(* Specifications: one per family of helpers, the others standing idle.    *)
(***************************************************************************)

InitMap     == MapStart /\ PadIdle /\ DecIdle /\ HbIdle /\ PctIdle /\ VulIdle
InitPad     == MapIdle /\ PadStart /\ DecIdle /\ HbIdle /\ PctIdle /\ VulIdle
InitDecimal == MapIdle /\ PadIdle /\ DecStart /\ HbIdle /\ PctIdle /\ VulIdle
InitBytes   == MapIdle /\ PadIdle /\ DecIdle /\ HbStart /\ PctIdle /\ VulIdle
InitPct     == MapIdle /\ PadIdle /\ DecIdle /\ HbIdle /\ PctStart /\ VulIdle
InitVul     == MapIdle /\ PadIdle /\ DecIdle /\ HbIdle /\ PctIdle /\ VulStart

NextMap     == CallToSelector \/ CallMapToStr \/ CallMapToIfc
NextPad     == CallPad \/ CallPadAgain
NextDecimal == CallDecimal \/ CallDecimalLarger
NextBytes   == CallHumanizeBytes
NextPct     == CallMemPct \/ CallDecimalPct
NextVul     == CallComputeVulScore

SpecMap     == InitMap /\ [][NextMap]_vars
SpecPad     == InitPad /\ [][NextPad]_vars
SpecDecimal == InitDecimal /\ [][NextDecimal]_vars
SpecBytes   == InitBytes /\ [][NextBytes]_vars
SpecPct     == InitPct /\ [][NextPct]_vars
SpecVul     == InitVul /\ [][NextVul]_vars

(***************************************************************************)
(* Properties                                                              *)
(***************************************************************************)

\* The keys of S in ascending byte-wise order.
Ascending(S) ==
    CHOOSE p \in RangeOrders(S) : \A i, j \in DOMAIN p : i < j => LexLess(p[i], p[j])

\* The keys of kk whose value in mm is a string, in the order of kk.
RECURSIVE StringKeys(_, _)
StringKeys(mm, kk) ==
    IF kk = <<>> THEN <<>>
    ELSE IF mm[Head(kk)].isStr THEN <<Head(kk)>> \o StringKeys(mm, Tail(kk))
    ELSE StringKeys(mm, Tail(kk))

\* "key=value" for each string-valued entry of mm, ascending by key.
StringPairs(mm) ==
    LET kk == StringKeys(mm, Ascending(DOMAIN mm))
    IN  [i \in 1..Len(kk) |-> kk[i] \o <<"=">> \o mm[kk[i]].str]

\* C1: mapToStr and mapToIfc return the same bytes whatever order the map is
\* ranged over (a call returns what the call before it on the same map
\* returned), and the empty string for an empty map.
C1_SortedSerializersOrderIndependent ==
    /\ (last.fn \in {"mapToStr", "mapToIfc"} /\ prevOut # NoResult) => last.out = prevOut
    /\ (last.fn = "mapToStr" /\ DOMAIN labels = {}) => last.out = <<>>
    /\ (last.fn = "mapToIfc" /\ dyn.kind = "map" /\ DOMAIN dyn.mm = {}) => last.out = <<>>

\* Two calls of mapToStr on a map of three entries, ranged over in two
\* different orders.
C1_Witness ==
    /\ last.fn = "mapToStr" /\ reordered /\ prevOut # NoResult
    /\ Cardinality(DOMAIN labels) >= 3

\* C2: two calls of toSelector on the same map of two or more entries return
\* the same string, whatever order the map is ranged over.
C2_ToSelectorPure ==
    (last.fn = "toSelector" /\ prevOut # NoResult /\ Cardinality(DOMAIN labels) >= 2)
        => last.out = prevOut

\* C3: mapToIfc returns exactly the "key=value" pairs of the string-valued
\* entries, ascending by key, joined by single spaces: no leading, trailing
\* or doubled space whichever entries are skipped.
C3_IfcExactlyStringPairs ==
    (last.fn = "mapToIfc" /\ dyn.kind = "map")
        => last.out = Join(StringPairs(dyn.mm), <<" ">>)

\* C4: for w >= 0 the rendered width of Pad(s, w) is w: s unchanged when its
\* rendered width is w, right-padded with spaces when narrower, truncated
\* when wider.
C4_PadRendersExactWidth ==
    (padOut # NoResult /\ padWidth >= 0) =>
        /\ StringWidth(padOut, eastAsian) = padWidth
        /\ StringWidth(padIn, eastAsian) = padWidth => padOut = padIn
        /\ StringWidth(padIn, eastAsian) < padWidth =>
               padOut = padIn \o Spaces(padWidth - StringWidth(padIn, eastAsian))

\* C5: Pad(Pad(s, w), w) = Pad(s, w).
C5_PadIdempotent == padOut2 # NoResult => padOut2 = padOut

\* Pad was applied twice, and the first call truncated a multi-byte string
\* and appended the ellipsis glyph after what it kept.
C5_Witness ==
    /\ padOut2 # NoResult
    /\ padOut # padIn /\ HasSuffix(padOut, Ellipsis) /\ Len(padOut) >= 2
    /\ ByteLength(padOut) # Len(padOut)

\* C6: for v in 10..999 decimal(v) is "." followed by one or two digits and
\* nothing else (a trailing zero only behind a zero tenths digit).
C6_FractionOnly ==
    (decOut # NoResult /\ decV >= 10 /\ decV <= 999) =>
        /\ Len(decOut) \in {2, 3}
        /\ decOut[1] = "."
        /\ \A i \in 2..Len(decOut) : IsDigit(decOut[i])
        /\ (Len(decOut) = 3 /\ decOut[3] = "0") => decOut[2] = "0"

\* The digits of a decimal numeral before its point, and behind it.
IntPart(s) ==
    IF ContainsChar(s, ".")
    THEN SubSeq(s, 1, (CHOOSE i \in 1..Len(s) : s[i] = "." /\ \A j \in 1..(i - 1) : s[j] # ".") - 1)
    ELSE s
FracPart(s) == SubSeq(s, Len(IntPart(s)) + 2, Len(s))

\* s denotes a number: digits, at most one point, a digit behind the point
\* when there is one, and at most two of them.
IsNumeral(s) ==
    /\ \A i \in 1..Len(IntPart(s)) : IsDigit(IntPart(s)[i])
    /\ \A i \in 1..Len(FracPart(s)) : IsDigit(FracPart(s)[i])
    /\ Len(IntPart(s)) + Len(FracPart(s)) >= 1
    /\ ContainsChar(s, ".") => Len(FracPart(s)) \in {1, 2}

RECURSIVE DigitsValue(_)
DigitsValue(ds) ==
    IF ds = <<>> THEN 0 ELSE 10 * DigitsValue(SubSeq(ds, 1, Len(ds) - 1)) + DigitOf(ds[Len(ds)])

\* A hundred times the number the numeral s denotes.
Hundredths(s) ==
    100 * DigitsValue(IntPart(s))
    + (IF Len(FracPart(s)) = 1 THEN 10 * DigitsValue(FracPart(s)) ELSE DigitsValue(FracPart(s)))

\* C7: for 0 <= v1 < v2, decimal(v1) and decimal(v2) each denote a number,
\* and the first is at most the second.
C7_DecimalMonotone ==
    (decPrevOut # NoResult /\ 0 <= decPrevV /\ decPrevV < decV) =>
        /\ IsNumeral(decPrevOut) /\ IsNumeral(decOut)
        /\ Hundredths(decPrevOut) <= Hundredths(decOut)

\* C8: humanizeBytes(b) has 2 to 6 characters for b > 0 and is the
\* zero-marker for b = 0.
C8_HumanizedLength ==
    hbOut # NoResult =>
        IF hbV = 0 THEN hbOut = ZeroValue ELSE Len(hbOut) >= 2 /\ Len(hbOut) <= 6

\* humanizeBytes was called one byte below 1024^2, where the scaled value
\* rounds to 1024.
C8_Witness == hbV = Mega - 1 /\ hbOut = <<"1", "0", "2", "4", "K">>

\* C9: with limit <= 0, memPct returns humanizeBytes(used) and decimalPct
\* returns decimal(used), neither divides by limit, and the result holds
\* neither "/" nor "%".
C9_NoLimitDegrades ==
    (pctOut # NoResult /\ pctLimit <= 0) =>
        /\ ~pctDivided
        /\ ~ContainsChar(pctOut, "/") /\ ~ContainsChar(pctOut, "%")
        /\ pctFn = "memPct" => pctOut = humanizeBytes(pctUsed)
        /\ pctFn = "decimalPct" => pctOut = decimal(pctUsed)

\* decimalPct(50, 0) was called.
C9_Witness ==
    pctFn = "decimalPct" /\ pctUsed = 50 /\ pctLimit = 0 /\ pctOut = <<".", "0", "5">>

\* The scanner is there, initialized and does not exclude the namespace and
\* labels of the call.
ScannerAvailable ==
    scanner.present /\ scanner.initialized /\ ~ShouldExcludes(scanner, vulNs, vulLbls)

\* The positions in the call's invocations at which method op was invoked.
CallsOf(op) == { i \in DOMAIN vulCalls : vulCalls[i].op = op }

\* C10: with the scanner absent, uninitialized or excluding, computeVulScore
\* returns the not-applicable marker and invokes neither Enqueue nor Score
\* (and nothing at all on an absent scanner); otherwise it invokes Enqueue,
\* then Score, each once and with the same image list.
C10_ScorerOnlyWhenAvailable ==
    vulOut # NoResult =>
        /\ ~scanner.present => vulCalls = <<>>
        /\ ~ScannerAvailable =>
               vulOut = NAValue /\ CallsOf("Enqueue") = {} /\ CallsOf("Score") = {}
        /\ ScannerAvailable =>
               /\ Cardinality(CallsOf("Enqueue")) = 1
               /\ Cardinality(CallsOf("Score")) = 1
               /\ \A i \in CallsOf("Enqueue"), j \in CallsOf("Score") :
                      /\ i < j
                      /\ vulCalls[i].args = vulCalls[j].args
                      /\ vulCalls[i].args = ExtractImages(vulImages)

\* computeVulScore went through to the scanner for a pod of two containers.
C10_Witness ==
    /\ vulOut # NoResult /\ ScannerAvailable
    /\ Len(vulImages) = 2 /\ CallsOf("Score") # {}

=============================================================================
